---- MODULE Spec2Model ----
(***************************************************************************)
(* A model of src/src/model/bayesian_sarima.py: the BayesianSARIMA class   *)
(* (train, predict, save, load) together with the snapshot files it reads  *)
(* and writes.                                                             *)
(*                                                                         *)
(* Numbers.  Floating-point values are modelled as fixed-point integers    *)
(* counted in tenths: 10.0 is 100, the coefficient 0.5 is 5.  Sums and     *)
(* differences are exact; a product is rescaled by Mul.                    *)
(***************************************************************************)
EXTENDS Integers, Sequences, FiniteSets

VARIABLES name, order, model, trace, fs, ret

vars == <<name, order, model, trace, fs, ret>>

(***************************************************************************)
(* Bounds of the model.                                                    *)
(***************************************************************************)
MaxAR == 2          \* p and q range over 0..MaxAR
MaxDiff == 2        \* d ranges over 0..MaxDiff
MaxSeasonalOrder == 1   \* P, D and Q range over 0..MaxSeasonalOrder
MaxPeriod == 2      \* m ranges over 1..MaxPeriod
MaxLen == 5         \* length of a training series
MaxSteps == 2       \* forecast horizon
MaxObs == 3         \* length of last_observations
MaxSeed == 1        \* outcomes of the posterior sampler

(***************************************************************************)
(* Python values and sequence operations.                                  *)
(***************************************************************************)
None == [kind |-> "None"]

Max2(a, b) == IF a >= b THEN a ELSE b

Min2(a, b) == IF a <= b THEN a ELSE b

\* A slice bound as Python resolves it for a sequence of length n: a negative
\* bound counts from the end, and both ends are clipped to 0..n.
ClipIndex(i, n) == IF i < 0 THEN Max2(n + i, 0) ELSE Min2(i, n)

\* s[lo:hi]
PySlice(s, lo, hi) ==
  LET a == ClipIndex(lo, Len(s))
      b == ClipIndex(hi, Len(s))
  IN  IF a >= b THEN <<>> ELSE SubSeq(s, a + 1, b)

\* s[lo:]
PyFrom(s, lo) == PySlice(s, lo, Len(s))

\* s[-k:] as Python evaluates it: -0 is 0, so k = 0 selects the whole of s.
PyLast(s, k) == PyFrom(s, 0 - k)

\* s[i] for a negative i (an index from the end) is defined iff -Len(s) <= i.
InRangeFromEnd(s, k) == k >= 1 /\ k <= Len(s)

\* s[-k]
FromEnd(s, k) == s[Len(s) - k + 1]

\* The product of two fixed-point numbers (counted in tenths).
Mul(a, b) == (a * b) \div 10

\* np.dot(a, b) of two vectors of the same length.
RECURSIVE DotUpTo(_, _, _)
DotUpTo(a, b, n) ==
  IF n = 0 THEN 0 ELSE DotUpTo(a, b, n - 1) + Mul(a[n], b[n])

Dot(a, b) == DotUpTo(a, b, Len(a))

(***************************************************************************)
(* Differencing (train, lines 73-80, and seasonal_difference).             *)
(***************************************************************************)
\* y.diff(periods).dropna().values: pandas' diff subtracts the element
\* `periods` rows before; the first `periods` rows are NaN and are dropped.
PandasDiff(y, periods) ==
  IF Len(y) <= periods THEN <<>>
  ELSE [t \in 1..(Len(y) - periods) |-> y[t + periods] - y[t]]

\* y_diff[m:] - y_diff[:-m]
LagDifference(y, m) ==
  LET a == PyFrom(y, m)
      b == PySlice(y, 0, 0 - m)
  IN  IF Len(a) = 0 THEN <<>> ELSE [t \in 1..Len(a) |-> a[t] - b[t]]

RECURSIVE seasonal_difference(_, _, _)
seasonal_difference(y, D, m) ==
  IF D = 0 THEN y ELSE seasonal_difference(LagDifference(y, m), D - 1, m)

y_ndiff(o, y) == PandasDiff(y, o.d)

y_diff(o, y) ==
  IF o.seasonal /\ o.D > 0 /\ o.m > 1
  THEN seasonal_difference(y_ndiff(o, y), o.D, o.m)
  ELSE y_ndiff(o, y)

(***************************************************************************)
(* The Order of an instance (__init__, lines 25-33).                       *)
(***************************************************************************)
Orders ==
  [p : 0..MaxAR, d : 0..MaxDiff, q : 0..MaxAR, seasonal : BOOLEAN,
   m : 1..MaxPeriod, P : 0..MaxSeasonalOrder, D : 0..MaxSeasonalOrder,
   Q : 0..MaxSeasonalOrder]

(***************************************************************************)
(* The model graph train builds (lines 87-166).                            *)
(***************************************************************************)
\* A length check that looks at the AR lags only.
RequiredLengthWithoutMA(o) == Max2(o.p, o.P * o.m)

\* max(self.p, self.q, self.P*self.m, self.Q*self.m), line 84
RequiredLength(o) == Max2(Max2(o.p, o.q), Max2(o.P * o.m, o.Q * o.m))

\* line 110
start_index(o) == Max2(o.p, IF o.seasonal THEN o.P * o.m ELSE 0)

\* A padding that covers the nonseasonal MA lags only.
PadWithoutSeasonal(o) == o.q

\* line 142
pad(o) == o.q + (IF o.seasonal THEN o.Q * o.m ELSE 0)

\* The random variables pm.Normal / pm.HalfNormal declare, lines 91-106, 143.
DeclaredVars(o) ==
  {"phi", "theta", "sigma", "eps"}
    \cup (IF o.seasonal /\ o.m > 1 THEN {"PHI", "THETA"} ELSE {})

\* The shape of each declared variable; sigma is a scalar, held as one value.
ShapeOf(o, v, N) ==
  CASE v = "phi" -> o.p
    [] v = "theta" -> o.q
    [] v = "PHI" -> o.P
    [] v = "THETA" -> o.Q
    [] v = "sigma" -> 1
    [] v = "eps" -> N + pad(o)

\* The positions 0 .. n-1 of an array of length n.
IndexVector(n) == IF n = 0 THEN <<>> ELSE [k \in 1..n |-> k - 1]

\* One entry of ar_contributions, sar_contributions, ma_contributions or
\* sma_contributions: coefficient coef[i-1] times the slice [lo : hi] of the
\* array `source` of length len; the slice is held as the positions it takes.
Contribution(coef, i, source, len, lo, hi) ==
  [coef |-> coef, i |-> i, source |-> source,
   slice |-> PySlice(IndexVector(len), lo, hi)]

\* lines 119-162: the lag slices train takes of y_diff_tensor and of eps.
Contributions(o, N) ==
  LET s == start_index(o)
      pd == pad(o)
  IN  {Contribution("phi", i, "y", N, s - i, 0 - i) : i \in 1..o.p}
        \cup (IF o.seasonal /\ o.P > 0 /\ o.m > 1
              THEN {Contribution("PHI", I, "y", N, s - I * o.m, 0 - I * o.m)
                      : I \in 1..o.P}
              ELSE {})
        \cup {Contribution("theta", j, "eps", N + pd, s + pd - j, 0 - j)
                : j \in 1..o.q}
        \cup (IF o.seasonal /\ o.Q > 0 /\ o.m > 1
              THEN {Contribution("THETA", J, "eps", N + pd,
                                 s + pd - J * o.m, 0 - J * o.m) : J \in 1..o.Q}
              ELSE {})

\* mu += sum(contributions): every slice must have the shape of mu.
ShapesAligned(o, N) ==
  \A c \in Contributions(o, N) : Len(c.slice) = N - start_index(o)

\* mu (lines 111-162): at each of its N - start_index positions, the terms
\* coefficient times array entry that were added to the initial zero.
MeanVectorOf(o, N) ==
  IF N - start_index(o) <= 0 \/ ~ShapesAligned(o, N) THEN <<>>
  ELSE [k \in 1..(N - start_index(o)) |->
          {[coef |-> c.coef, i |-> c.i, source |-> c.source,
            index |-> c.slice[k]] : c \in Contributions(o, N)}]

BuildModel(o, yd) ==
  [kind |-> "Model",
   vars |-> [v \in DeclaredVars(o) |-> ShapeOf(o, v, Len(yd))],
   N |-> Len(yd),
   start_index |-> start_index(o),
   pad |-> pad(o),
   contributions |-> Contributions(o, Len(yd)),
   mu |-> MeanVectorOf(o, Len(yd)),
   observed |-> PyFrom(yd, start_index(o))]

(***************************************************************************)
(* pm.sample (line 169), an external sampler: it either raises or returns  *)
(* samples for every declared variable, of the declared shape.  Only the   *)
(* mean over chains and draws is ever read, so the samples of a variable   *)
(* are held as their mean; `seed` selects one outcome of the sampler.      *)
(***************************************************************************)
PosteriorMean(seed, v, i) ==
  seed * (CASE v = "phi" -> 7 - 2 * i
            [] v = "theta" -> 2 + 2 * i
            [] v = "PHI" -> 3 - i
            [] v = "THETA" -> 5 - i
            [] v = "sigma" -> 10
            [] v = "eps" -> 10 * i)

\* The posterior mean of a variable of shape n.
MeanVector(seed, v, n) ==
  IF n = 0 THEN <<>> ELSE [i \in 1..n |-> PosteriorMean(seed, v, i)]

Sample(graph, seed) ==
  [kind |-> "Trace",
   posterior |->
     [v \in DOMAIN graph.vars |-> MeanVector(seed, v, graph.vars[v])]]

(***************************************************************************)
(* train (lines 56-169).  seed = 0 stands for a sampler that raises.       *)
(***************************************************************************)
TrainOutcome(o, y, seed, model0, trace0) ==
  LET yd == y_diff(o, y)
      N == Len(yd)
  IN  IF N <= RequiredLength(o)
      THEN [status |-> "raised", error |-> "ValueError: not enough data",
            model |-> model0, trace |-> trace0]
      ELSE LET graph == BuildModel(o, yd)
           IN  IF ~ShapesAligned(o, N)
               THEN [status |-> "raised", error |-> "ValueError: shapes",
                     model |-> graph, trace |-> trace0]
               ELSE IF seed = 0
               THEN [status |-> "raised", error |-> "SamplerError",
                     model |-> graph, trace |-> trace0]
               ELSE [status |-> "ok", error |-> "",
                     model |-> graph, trace |-> Sample(graph, seed)]

Train(y, seed) ==
  \E r \in {TrainOutcome(order, y, seed, model, trace)} :
      /\ model' = r.model
      /\ trace' = r.trace
      /\ ret' = [op |-> "train", status |-> r.status, error |-> r.error,
                 args |-> [y |-> y, seed |-> seed]]
      /\ UNCHANGED <<name, order, fs>>

(***************************************************************************)
(* predict (lines 171-291).                                                *)
(***************************************************************************)
Raised(msg) ==
  [status |-> "raised", error |-> msg, forecast |-> <<>>, steps |-> <<>>]

\* The posterior variables predict reads before the loop, lines 190-202.
PosteriorReads(o) ==
  {"phi", "theta", "sigma"}
    \cup (IF o.seasonal /\ o.P > 0 THEN {"PHI"} ELSE {})
    \cup (IF o.seasonal /\ o.Q > 0 THEN {"THETA"} ELSE {})

\* line 206
req_length(o) == Max2(o.p, IF o.seasonal /\ o.m > 1 THEN o.P * o.m ELSE 0)

\* line 216
q_total(o) == o.q + (IF o.seasonal THEN o.Q * o.m ELSE 0)

\* The seasonal branches of the loop, lines 240, 257, 270 and 284.
SeasonalAR(o) == o.seasonal /\ o.P > 0 /\ o.m > 1

SeasonalMA(o) == o.seasonal /\ o.Q > 0 /\ o.m > 1

\* np.dot(phi_post, ar_terms[-self.p:]), line 253
ar_component(o, post, ar_terms) ==
  IF o.p > 0 THEN Dot(post["phi"], PyLast(ar_terms, o.p)) ELSE 0

\* lines 262-263: the sum over I = 1..n of PHI_post[I-1] * sar_terms[-I*m]
RECURSIVE SeasonalSum(_, _, _, _)
SeasonalSum(coef, terms, m, n) ==
  IF n = 0 THEN 0
  ELSE SeasonalSum(coef, terms, m, n - 1) + Mul(coef[n], FromEnd(terms, n * m))

sar_component(o, post, sar_terms) ==
  IF SeasonalAR(o) THEN SeasonalSum(post["PHI"], sar_terms, o.m, o.P) ELSE 0

\* lines 266-272
ma_component(o, post, ma_terms) ==
  (IF o.q > 0 THEN Dot(post["theta"], PyLast(ma_terms, o.q)) ELSE 0)
    + (IF SeasonalMA(o)
       THEN SeasonalSum(post["THETA"], ma_terms, o.m, o.Q) ELSE 0)

\* What makes one iteration of the loop raise: np.dot on vectors of different
\* lengths, or an index outside a coefficient vector or a window.
StepError(o, post, st) ==
  IF o.p > 0 /\ Len(post["phi"]) # Len(PyLast(st.ar_terms, o.p))
    THEN "ValueError: shapes not aligned"
  ELSE IF SeasonalAR(o) /\ \E I \in 1..o.P :
            I > Len(post["PHI"]) \/ ~InRangeFromEnd(st.sar_terms, I * o.m)
    THEN "IndexError"
  ELSE IF o.q > 0 /\ Len(post["theta"]) # Len(PyLast(st.ma_terms, o.q))
    THEN "ValueError: shapes not aligned"
  ELSE IF SeasonalMA(o) /\ \E J \in 1..o.Q :
            J > Len(post["THETA"]) \/ ~InRangeFromEnd(st.ma_terms, J * o.m)
    THEN "IndexError"
  ELSE ""

\* One iteration of the loop, lines 250-287.  z is the standard normal draw
\* behind np.random.normal(0, sigma_post).
ForecastStep(o, post, st, z) ==
  LET ar == ar_component(o, post, st.ar_terms)
      sar == sar_component(o, post, st.sar_terms)
      ma == ma_component(o, post, st.ma_terms)
      epsilon == z * post["sigma"][1]
      y_hat_diff == ar + sar + ma + epsilon
  IN  [ar_terms |-> IF o.p > 0 THEN Append(st.ar_terms, y_hat_diff)
                    ELSE st.ar_terms,
       sar_terms |-> IF SeasonalAR(o) THEN Append(st.sar_terms, y_hat_diff)
                     ELSE st.sar_terms,
       ma_terms |-> IF q_total(o) > 0 THEN Append(st.ma_terms, epsilon)
                    ELSE st.ma_terms,
       forecast |-> Append(st.forecast, y_hat_diff),
       error |-> "",
       steps |-> Append(st.steps,
                  [ar_terms |-> st.ar_terms, sar_terms |-> st.sar_terms,
                   ma_terms |-> st.ma_terms, ar_component |-> ar,
                   sar_component |-> sar, ma_component |-> ma,
                   epsilon |-> epsilon, y_hat_diff |-> y_hat_diff])]

\* for step in range(steps), from iteration k on; noise[k] is the k-th draw.
RECURSIVE ForecastLoop(_, _, _, _, _, _)
ForecastLoop(o, post, st, noise, k, steps) ==
  IF k > steps THEN st
  ELSE LET err == StepError(o, post, st)
       IN  IF err # "" THEN [st EXCEPT !.error = err]
           ELSE ForecastLoop(o, post, ForecastStep(o, post, st, noise[k]),
                             noise, k + 1, steps)

\* A predict that does not check for posterior samples.
UntrainedNeverChecked(tr) == FALSE

\* if self.trace is None, line 187
Untrained(tr) == tr = None

PredictOutcome(o, tr, steps, last_observations, noise) ==
  IF Untrained(tr) THEN Raised("ValueError: model has not been trained")
  ELSE IF tr = None THEN Raised("AttributeError")   \* None.posterior
  ELSE LET post == tr.posterior IN
  IF ~(PosteriorReads(o) \subseteq DOMAIN post) THEN Raised("KeyError")
  ELSE IF last_observations = None
    THEN Raised("ValueError: must provide observations")
  ELSE IF Len(last_observations.values) < req_length(o)
    THEN Raised("ValueError: must provide observations")
  ELSE IF q_total(o) > 0 /\ "eps" \notin DOMAIN post THEN Raised("KeyError")
  ELSE
    LET obs == IF Len(last_observations.values) > req_length(o)
               THEN PyLast(last_observations.values, req_length(o))
               ELSE last_observations.values
        st0 == [ar_terms |-> IF o.p > 0 THEN PyLast(obs, o.p) ELSE <<>>,
                sar_terms |-> IF SeasonalAR(o) THEN PyLast(obs, o.P * o.m)
                              ELSE <<>>,
                ma_terms |-> IF q_total(o) > 0
                             THEN PyLast(post["eps"], q_total(o)) ELSE <<>>,
                forecast |-> <<>>, error |-> "", steps |-> <<>>]
        Result(end) ==
          IF end.error # "" THEN Raised(end.error)
          ELSE [status |-> "ok", error |-> "", forecast |-> end.forecast,
                steps |-> end.steps]
    IN  Result(CHOOSE end \in {ForecastLoop(o, post, st0, noise, 1, steps)} :
                 TRUE)

\* An array passed as last_observations.
Array(s) == [kind |-> "Array", values |-> s]

Predict(steps, last_observations, noise) ==
  \E r \in {PredictOutcome(order, trace, steps, last_observations, noise)} :
      /\ ret' = [op |-> "predict", status |-> r.status, error |-> r.error,
                 args |-> [steps |-> steps,
                           last_observations |-> last_observations,
                           noise |-> noise],
                 forecast |-> r.forecast, steps |-> r.steps]
      /\ UNCHANGED <<name, order, model, trace, fs>>

(***************************************************************************)
(* Snapshot files (save, lines 293-308; load, lines 310-323).              *)
(***************************************************************************)
Names == {"AAPL", "MSFT"}

Path(dir, stem) == [kind |-> "Path", dir |-> dir, file |-> <<stem, ".pkl">>]

\* Path(__file__).parent / f"../../models/arima/{self.name}.pkl"
DefaultPath(n) == Path("../../models/arima", n)

Missing == [kind |-> "Missing"]

Corrupt == [kind |-> "Corrupt"]

\* pickle.dump(obj, f): the file holds the pickled object.
Pickled(obj) == [kind |-> "Pickle", data |-> obj]

\* The dict save pickles, line 306.
Bundle(mdl, tr) == [k \in {"model", "trace"} |->
                      IF k = "model" THEN mdl ELSE tr]

\* Files that are there before the program runs: an unreadable one and two
\* readable bundles that each lack one entry.
ForeignModel ==
  BuildModel([p |-> 0, d |-> 0, q |-> 0, seasonal |-> FALSE, m |-> 1,
              P |-> 0, D |-> 0, Q |-> 0], <<0, 0>>)

ForeignFiles ==
  {Path("/tmp", "corrupt"), Path("/tmp", "no_model"), Path("/tmp", "no_trace")}

Locations == {DefaultPath(n) : n \in Names} \cup ForeignFiles

InitialFiles ==
  [f \in Locations |->
     IF f = Path("/tmp", "corrupt") THEN Corrupt
     ELSE IF f = Path("/tmp", "no_model")
       THEN Pickled([k \in {"trace"} |-> Sample(ForeignModel, 1)])
     ELSE IF f = Path("/tmp", "no_trace")
       THEN Pickled([k \in {"model"} |-> ForeignModel])
     ELSE Missing]

\* save; io_ok is whether open(filename, "wb") succeeds.
SaveOutcome(n, mdl, tr, files, io_ok) ==
  IF mdl = None
  THEN [status |-> "raised", error |-> "ValueError: model has not been trained",
        fs |-> files, filename |-> None]
  ELSE IF ~io_ok
  THEN [status |-> "raised", error |-> "OSError",
        fs |-> files, filename |-> None]
  ELSE [status |-> "ok", error |-> "",
        fs |-> [files EXCEPT ![DefaultPath(n)] = Pickled(Bundle(mdl, tr))],
        filename |-> DefaultPath(n)]

Save(io_ok) ==
  \E r \in {SaveOutcome(name, model, trace, fs, io_ok)} :
      /\ fs' = r.fs
      /\ ret' = [op |-> "save", status |-> r.status, error |-> r.error,
                 args |-> [io_ok |-> io_ok], filename |-> r.filename]
      /\ UNCHANGED <<name, order, model, trace>>

\* A load whose default location is in another directory than save's.
ResolveFilenameOtherDirectory(n, filename) ==
  IF filename = None THEN Path("../models/arima", n) ELSE filename

\* lines 317-318
ResolveFilename(n, filename) ==
  IF filename = None THEN DefaultPath(n) ELSE filename

\* load: open, pickle.load, then the two assignments in order.
LoadOutcome(n, filename, files, model0, trace0) ==
  LET f == ResolveFilename(n, filename)
      keep(msg) == [status |-> "raised", error |-> msg,
                    model |-> model0, trace |-> trace0, filename |-> f]
  IN  IF f \notin DOMAIN files \/ files[f] = Missing
        THEN keep("FileNotFoundError")
      ELSE IF files[f].kind # "Pickle" THEN keep("UnpicklingError")
      ELSE LET data == files[f].data
           IN  IF "model" \notin DOMAIN data THEN keep("KeyError: model")
               ELSE IF "trace" \notin DOMAIN data
                 THEN [status |-> "raised", error |-> "KeyError: trace",
                       model |-> data["model"], trace |-> trace0,
                       filename |-> f]
               ELSE [status |-> "ok", error |-> "", model |-> data["model"],
                     trace |-> data["trace"], filename |-> f]

Load(filename) ==
  \E r \in {LoadOutcome(name, filename, fs, model, trace)} :
      /\ model' = r.model
      /\ trace' = r.trace
      /\ ret' = [op |-> "load", status |-> r.status, error |-> r.error,
                 args |-> [filename |-> filename], filename |-> r.filename]
      /\ UNCHANGED <<name, order, fs>>

\* __init__ (lines 25-36): a new instance of the same name and Order, as
\* loading_test.py constructs before it calls load.
Construct ==
  /\ model' = None
  /\ trace' = None
  /\ ret' = [op |-> "init", status |-> "ok", error |-> ""]
  /\ UNCHANGED <<name, order, fs>>

(***************************************************************************)
(* Inputs.                                                                 *)
(***************************************************************************)
\* A raw series of length n (in tenths): 1.0, 4.0, 9.0, ...
Series(n) == IF n = 0 THEN <<>> ELSE [t \in 1..n |-> 10 * t * t]

\* All sequences over S of length at most n.
RECURSIVE SeqsUpTo(_, _)
SeqsUpTo(S, n) ==
  IF n = 0 THEN {<<>>}
  ELSE LET shorter == SeqsUpTo(S, n - 1)
       IN  shorter \cup {Append(s, x) : s \in {t \in shorter : Len(t) = n - 1},
                                        x \in S}

SeqsOfLen(S, n) == {s \in SeqsUpTo(S, n) : Len(s) = n}

\* The last k values of a differenced series (in tenths): 10.0, 20.0, ...
LastObservations(k) == IF k = 0 THEN <<>> ELSE [t \in 1..k |-> 100 * t]

\* What a caller passes as last_observations: nothing, or up to n values.
Observations(n) == {None} \cup {Array(LastObservations(k)) : k \in 0..n}

\* The standard normal draws behind the noise of a forecast.
Draws == {0 - 1, 0, 1}

InitWith(names, orders) ==
  /\ name \in names
  /\ order \in orders
  /\ model = None
  /\ trace = None
  /\ fs = InitialFiles
  /\ ret = [op |-> "init", status |-> "ok", error |-> ""]

(***************************************************************************)
(* Spec: the life of one instance and its snapshot file.  Every operation  *)
(* of the class, on nonseasonal Orders with d = 1, trained on a series     *)
(* that is either empty or of full length.                                 *)
(***************************************************************************)
LifeOrders ==
  {o \in Orders : /\ o.d = 1 /\ o.D = 0 /\ o.P = 0 /\ o.Q = 0
                  /\ o.m = 1 /\ ~o.seasonal}

Init == InitWith(Names, LifeOrders)

TrainLife == \E n \in {0, MaxLen}, seed \in 0..MaxSeed : Train(Series(n), seed)

PredictLife ==
  \E steps \in 0..MaxSteps, obs \in Observations(1) :
    \E noise \in SeqsOfLen({0}, steps) : Predict(steps, obs, noise)

SaveAny == \E io_ok \in BOOLEAN : Save(io_ok)

LoadAny == \E filename \in {None} \cup Locations : Load(filename)

Next == TrainLife \/ PredictLife \/ SaveAny \/ LoadAny \/ Construct

Spec == Init /\ [][Next]_vars

(***************************************************************************)
(* SpecOrders: train and predict over every Order with d = 1.              *)
(***************************************************************************)
InitOrders == InitWith({"AAPL"}, {o \in Orders : o.d = 1})

TrainOrders == \E n \in 0..MaxLen, seed \in 1..MaxSeed : Train(Series(n), seed)

PredictOrders ==
  \E steps \in 0..MaxSteps, obs \in Observations(MaxObs) :
    \E noise \in SeqsOfLen({0, 1}, steps) : Predict(steps, obs, noise)

NextOrders == TrainOrders \/ PredictOrders

SpecOrders == InitOrders /\ [][NextOrders]_vars

(***************************************************************************)
(* SpecDiff: train over every differencing order, on every short series.   *)
(***************************************************************************)
InitDiff ==
  InitWith({"AAPL"}, {o \in Orders : o.p = 0 /\ o.q = 0 /\ o.P = 0 /\ o.Q = 0})

TrainDiff == \E y \in SeqsUpTo({10, 30}, MaxLen) : Train(y, 1)

NextDiff == TrainDiff \/ Construct

SpecDiff == InitDiff /\ [][NextDiff]_vars

(***************************************************************************)
(* SpecTrain: train over every Order with d = 1, on instances that are new *)
(* or already trained.                                                     *)
(***************************************************************************)
NextTrain == TrainOrders \/ Construct

SpecTrain == InitOrders /\ [][NextTrain]_vars

(***************************************************************************)
(* Properties.                                                             *)
(***************************************************************************)
\* The sum over i = 1..n of coef[i] times the i-th most recent entry of terms.
RECURSIVE LagSum(_, _, _)
LagSum(coef, terms, n) ==
  IF n = 0 THEN 0
  ELSE LagSum(coef, terms, n - 1) + Mul(coef[n], FromEnd(terms, n))

\* The last n entries of s.
LastN(s, n) == SubSeq(s, Len(s) - n + 1, Len(s))

PredictReturned == ret.op = "predict" /\ ret.status = "ok"

\* C1: at every forecast step the AR component is the sum over i = 1..p of
\* phi_i times the i-th most recent entry of ar_terms (0 when p = 0); with
\* p = 2, q = 0, no seasonal part, phi = [0.5, 0.3], zero noise and
\* last_observations = [10.0, 20.0] the forecasts are 13.0 and then 12.5.
C1_ARComponentNewestFirst ==
  PredictReturned =>
    /\ \A k \in 1..Len(ret.steps) :
         ret.steps[k].ar_component
           = LagSum(trace.posterior["phi"], ret.steps[k].ar_terms, order.p)
    /\ ( /\ order.p = 2 /\ order.q = 0 /\ ~order.seasonal
         /\ trace.posterior["phi"] = <<5, 3>>
         /\ ret.args.last_observations = Array(<<100, 200>>)
         /\ ret.args.noise = <<0, 0>> )
       => ret.forecast = <<130, 125>>

\* First-order differencing applied d times in a row.
FirstDifference(y) ==
  IF Len(y) <= 1 THEN <<>> ELSE [t \in 1..(Len(y) - 1) |-> y[t + 1] - y[t]]

RECURSIVE IteratedDifference(_, _)
IteratedDifference(y, d) ==
  IF d = 0 THEN y ELSE IteratedDifference(FirstDifference(y), d - 1)

\* C2: the series train models is first-order differencing applied d times
\* (the identity for d = 0), dropping d leading points, followed, if seasonal
\* and D > 0 and m > 1, by D seasonal differences at stride m.
C2_IteratedDifferencing ==
  (ret.op = "train" /\ ret.status = "ok") =>
    LET nonseasonal == IteratedDifference(ret.args.y, order.d)
        expected == IF order.seasonal /\ order.D > 0 /\ order.m > 1
                    THEN seasonal_difference(nonseasonal, order.D, order.m)
                    ELSE nonseasonal
    IN  /\ Len(nonseasonal) = Len(ret.args.y) - order.d
        /\ model.N = Len(expected)
        /\ model.observed = PyFrom(expected, start_index(order))

\* C3: save fails and writes nothing whenever the instance holds no posterior
\* samples; a snapshot is written only when both the model graph and the
\* posterior samples are present.
C3_SaveNeedsTrace ==
  /\ (ret.op = "save" /\ ret.status = "ok") => (model # None /\ trace # None)
  /\ \A n \in Names :
       fs[DefaultPath(n)].kind = "Pickle" =>
         /\ fs[DefaultPath(n)].data["model"] # None
         /\ fs[DefaultPath(n)].data["trace"] # None

\* C4: a load that fails (snapshot missing, unreadable, or lacking the model
\* or the trace entry) leaves the model graph and the posterior samples of
\* the instance exactly as they were before the call.
C4_FailedLoadChangesNothing ==
  [][(ret'.op = "load" /\ ret'.status = "raised")
       => (model' = model /\ trace' = trace)]_vars

\* C5: predict on an instance without posterior samples fails with the
\* model-not-trained error, whatever steps and last_observations are, and
\* produces no forecast.
C5_PredictUntrainedFails ==
  (ret.op = "predict" /\ trace = None) =>
    /\ ret.status = "raised"
    /\ ret.error = "ValueError: model has not been trained"
    /\ ret.forecast = <<>>

\* predict has acted on an instance that holds a model graph but no posterior
\* samples, with last_observations that would have sufficed.
C5_Witness ==
  /\ ret.op = "predict" /\ trace = None /\ model # None
  /\ ret.args.steps >= 1
  /\ ret.args.last_observations # None
  /\ Len(ret.args.last_observations.values) >= req_length(order)
  /\ ret.status = "raised"

\* C6: after a successful train, for k >= 1 steps and last_observations with
\* at least max(p, seasonal ? P*m : 0) entries, predict completes without
\* error and returns exactly k values.
C6_PredictReturnsKValues ==
  ( /\ ret.op = "predict" /\ trace # None
    /\ ret.args.steps >= 1
    /\ ret.args.last_observations # None
    /\ Len(ret.args.last_observations.values)
         >= Max2(order.p, IF order.seasonal THEN order.P * order.m ELSE 0) )
  => /\ ret.status = "ok"
     /\ Len(ret.forecast) = ret.args.steps
     /\ \A k \in 1..ret.args.steps :
          ret.forecast[k] = ret.steps[k].y_hat_diff

\* C7: when the differenced series has length N <= max(p, q, P*m, Q*m), train
\* fails with the insufficient-data error and leaves the model graph and the
\* posterior samples of the instance as they were.
C7_ShortSeriesRejected ==
  [][( /\ ret'.op = "train"
       /\ Len(y_diff(order, ret'.args.y))
            <= Max2(Max2(order.p, order.q),
                    Max2(order.P * order.m, order.Q * order.m)) )
     => /\ ret'.status = "raised"
        /\ ret'.error = "ValueError: not enough data"
        /\ model' = model
        /\ trace' = trace]_vars

\* train has rejected a nonempty series on an instance that was already
\* trained, and the instance still holds its model graph and samples.
C7_Witness ==
  /\ ret.op = "train" /\ ret.error = "ValueError: not enough data"
  /\ Len(ret.args.y) > 0
  /\ model # None /\ trace # None

\* C8: after a successful save, load with no explicit location on an instance
\* of the same name and Order reads the location save wrote to and restores
\* the saved model graph and posterior samples, so predict returns the same
\* forecasts for the same last_observations and noise draws.
C8_SaveLoadRoundTrip ==
  [][(ret'.op = "save" /\ ret'.status = "ok") =>
       \A loaded \in {LoadOutcome(name', None, fs', None, None)} :
         /\ loaded.status = "ok"
         /\ loaded.filename = ret'.filename
         /\ loaded.model = model'
         /\ loaded.trace = trace'
         /\ \A steps \in 1..MaxSteps, obs \in Observations(1) :
              \A noise \in SeqsOfLen({0, 1}, steps) :
                PredictOutcome(order, loaded.trace, steps, obs, noise)
                  = PredictOutcome(order, trace', steps, obs, noise)]_vars

\* An instance has loaded, from the default location of its name, the
\* snapshot an earlier save wrote there (only save writes files), and holds
\* the saved model graph and posterior samples.
C8_Witness ==
  /\ ret.op = "load" /\ ret.status = "ok" /\ ret.args.filename = None
  /\ ret.filename = DefaultPath(name)
  /\ trace # None
  /\ fs[DefaultPath(name)] = Pickled(Bundle(model, trace))

\* The Order with its seasonal orders set to zero.
NoSeasonalOrders(o) == [o EXCEPT !.P = 0, !.D = 0, !.Q = 0]

\* C9: with seasonal = false the values of P, D and Q have no effect: train
\* accepts or rejects the same series and builds the same model graph, and
\* predict needs the same observations and returns the same forecast, as
\* with P = D = Q = 0.
C9_SeasonalOrdersIgnored ==
  ~order.seasonal =>
    /\ ret.op = "train" =>
         \A same \in {TrainOutcome(NoSeasonalOrders(order), ret.args.y,
                                   ret.args.seed, None, None)} :
           /\ ret.status = same.status
           /\ ret.status = "ok" => (model = same.model /\ trace = same.trace)
    /\ ret.op = "predict" =>
         \A same \in {PredictOutcome(NoSeasonalOrders(order), trace,
                                     ret.args.steps,
                                     ret.args.last_observations,
                                     ret.args.noise)} :
           /\ ret.status = same.status
           /\ ret.forecast = same.forecast

\* C10: at every forecast step the MA component is the sum over j = 1..q of
\* theta_j times the j-th most recent entry of ma_terms plus, if seasonal and
\* Q > 0 and m > 1, the sum over J = 1..Q of THETA_J times the (J*m)-th most
\* recent entry; ma_terms starts as the last q + (seasonal ? Q*m : 0)
\* posterior-mean eps values and grows by the step's epsilon.
C10_MAComponentNewestFirst ==
  PredictReturned =>
    \A k \in 1..Len(ret.steps) :
      /\ ret.steps[k].ma_component
           = LagSum(trace.posterior["theta"], ret.steps[k].ma_terms, order.q)
             + (IF order.seasonal /\ order.Q > 0 /\ order.m > 1
                THEN SeasonalSum(trace.posterior["THETA"],
                                 ret.steps[k].ma_terms, order.m, order.Q)
                ELSE 0)
      /\ (q_total(order) > 0) =>
           ret.steps[k].ma_terms
             = IF k = 1
               THEN LastN(trace.posterior["eps"], q_total(order))
               ELSE Append(ret.steps[k - 1].ma_terms,
                           ret.steps[k - 1].epsilon)

\* The terms of the mean at position t of the differenced series.
ExpectedTerms(o, t) ==
  LET pd == o.q + (IF o.seasonal THEN o.Q * o.m ELSE 0)
  IN  {[coef |-> "phi", i |-> i, source |-> "y", index |-> t - i]
         : i \in 1..o.p}
        \cup {[coef |-> "theta", i |-> j, source |-> "eps",
               index |-> t + pd - j] : j \in 1..o.q}
        \cup (IF o.seasonal /\ o.P > 0 /\ o.m > 1
              THEN {[coef |-> "PHI", i |-> I, source |-> "y",
                     index |-> t - I * o.m] : I \in 1..o.P}
              ELSE {})
        \cup (IF o.seasonal /\ o.Q > 0 /\ o.m > 1
              THEN {[coef |-> "THETA", i |-> J, source |-> "eps",
                     index |-> t + pd - J * o.m] : J \in 1..o.Q}
              ELSE {})

\* train was given a series whose differenced length exceeds every lag.
TrainedOnLongEnough ==
  /\ ret.op = "train" /\ ret.args.seed # 0
  /\ Len(y_diff(order, ret.args.y))
       > Max2(Max2(order.p, order.q),
              Max2(order.P * order.m, order.Q * order.m))

\* C11: for a differenced series of length N > max(p, q, P*m, Q*m), every
\* lag slice train takes starts at an index >= 0, stays inside its array and
\* has length N - start_index, so mu at position t = start_index .. N-1 is
\* sum phi_i*y[t-i] + sum PHI_I*y[t-I*m] + sum theta_j*eps[t+pad-j]
\* + sum THETA_J*eps[t+pad-J*m]; for p = q = 0 and seasonal = false mu is zero.
C11_LagSlicesInBounds ==
  TrainedOnLongEnough =>
    LET N == Len(y_diff(order, ret.args.y))
        s == Max2(order.p, IF order.seasonal THEN order.P * order.m ELSE 0)
        pd == order.q + (IF order.seasonal THEN order.Q * order.m ELSE 0)
    IN  /\ ret.status = "ok"
        /\ model.N = N /\ model.start_index = s /\ model.pad = pd
        /\ \A c \in model.contributions :
             LET len == IF c.source = "y" THEN N ELSE N + pd
             IN  /\ Len(c.slice) = N - s
                 /\ c.slice[1] >= 0
                 /\ c.slice[Len(c.slice)] <= len - 1
                 /\ \A k \in 1..(Len(c.slice) - 1) :
                      c.slice[k + 1] = c.slice[k] + 1
        /\ Len(model.mu) = N - s
        /\ \A k \in 1..(N - s) : model.mu[k] = ExpectedTerms(order, s + k - 1)
        /\ (order.p = 0 /\ order.q = 0 /\ ~order.seasonal)
             => \A k \in 1..(N - s) : model.mu[k] = {}

\* train has built the mean of a model with all four families of lags, over
\* more than one position.
C11_Witness ==
  /\ TrainedOnLongEnough /\ ret.status = "ok"
  /\ order.seasonal /\ order.m > 1
  /\ order.p > 0 /\ order.q > 0 /\ order.P > 0 /\ order.Q > 0
  /\ Len(model.mu) > 1
  /\ Cardinality(model.mu[1]) = order.p + order.q + order.P + order.Q

====
